---- MODULE Spec2Model ----
(***************************************************************************)
(* Model of the circuit sizing core of SGProEngine (src/app.py): breaker   *)
(* selection (get_at_af), voltage drop (calculate_voltage_drop), cable     *)
(* selection (select_cable_with_vd) and the switchboard form (tab2) that   *)
(* computes the design current and calls both selectors.                   *)
(*                                                                         *)
(* Python floats are modelled in fixed point:                              *)
(*   currents        in 1/100 A        (169.97 A  -> 16997)                *)
(*   cable sizes     in 1/10 mm2       (1.5 mm2   -> 15)                   *)
(*   power factor    in 1/100          (0.85      -> 85)                   *)
(*   resistance      in 1/10000 ohm/km (0.0991    -> 991)                  *)
(*   reactance       in 1/1000 ohm/km  (0.145     -> 145)                  *)
(*   voltage drop    in 1/100000 V, drop percent in 1/100000 percent       *)
(*   max drop        in 1/10 percent   (4.0 %     -> 40)                   *)
(*   ratings, ampacities, lengths (m) and loads (kW) are whole numbers.    *)
(***************************************************************************)
EXTENDS Integers, Sequences, FiniteSets, TLC

VARIABLES standard_frames, standard_trips, cable_db, cable_diameters, cable_impedance,
          tray_fill_factors, standard_tray_sizes, out, prev, kept, threads

catalog ==
    <<standard_frames, standard_trips, cable_db, cable_diameters, cable_impedance,
      tray_fill_factors, standard_tray_sizes>>

vars == <<catalog, out, prev, kept, threads>>

(***************************************************************************)
(* Reference data set by SGProEngine.__init__                              *)
(***************************************************************************)
StandardFrames ==
    <<63, 100, 125, 160, 250, 400, 630, 800, 1000, 1250, 1600, 2000, 2500, 3200, 4000>>

\* faulty variant: 250 entered before 200
StandardTripsSwapped ==
    <<6, 10, 16, 20, 32, 40, 50, 63, 80, 100, 125, 160, 250, 200, 320, 400, 500, 630, 800,
      1000, 1250, 1600, 2000, 2500, 3200, 4000>>

StandardTrips ==
    <<6, 10, 16, 20, 32, 40, 50, 63, 80, 100, 125, 160, 200, 250, 320, 400, 500, 630,
      800, 1000, 1250, 1600, 2000, 2500, 3200, 4000>>

\* faulty variant: the ampacities of 500 and 630 mm2 entered the other way round
CableDbSwapped ==
    (15 :> 25) @@ (25 :> 33) @@ (40 :> 43) @@ (60 :> 56) @@ (100 :> 77) @@
    (160 :> 102) @@ (250 :> 135) @@ (350 :> 166) @@ (500 :> 201) @@ (700 :> 255) @@
    (950 :> 309) @@ (1200 :> 358) @@ (1500 :> 410) @@ (1850 :> 469) @@ (2400 :> 551) @@
    (3000 :> 627) @@ (4000 :> 750) @@ (5000 :> 980) @@ (6300 :> 860)

\* size (1/10 mm2) -> Iz (A)
CableDb ==
    (15 :> 25) @@ (25 :> 33) @@ (40 :> 43) @@ (60 :> 56) @@ (100 :> 77) @@
    (160 :> 102) @@ (250 :> 135) @@ (350 :> 166) @@ (500 :> 201) @@ (700 :> 255) @@
    (950 :> 309) @@ (1200 :> 358) @@ (1500 :> 410) @@ (1850 :> 469) @@ (2400 :> 551) @@
    (3000 :> 627) @@ (4000 :> 750) @@ (5000 :> 860) @@ (6300 :> 980)

\* faulty variant: the impedance table stops at 500 mm2
CableImpedanceTo500 ==
    (15 :> [r |-> 148000, x |-> 145]) @@ (25 :> [r |-> 89100, x |-> 135]) @@
    (40 :> [r |-> 55700, x |-> 125]) @@ (60 :> [r |-> 37100, x |-> 120]) @@
    (100 :> [r |-> 22400, x |-> 115]) @@ (160 :> [r |-> 14100, x |-> 110]) @@
    (250 :> [r |-> 8890, x |-> 105]) @@ (350 :> [r |-> 6410, x |-> 100]) @@
    (500 :> [r |-> 4730, x |-> 100]) @@ (700 :> [r |-> 3280, x |-> 95]) @@
    (950 :> [r |-> 2360, x |-> 95]) @@ (1200 :> [r |-> 1880, x |-> 90]) @@
    (1500 :> [r |-> 1530, x |-> 90]) @@ (1850 :> [r |-> 1240, x |-> 90]) @@
    (2400 :> [r |-> 991, x |-> 85]) @@ (3000 :> [r |-> 795, x |-> 85]) @@
    (4000 :> [r |-> 625, x |-> 85]) @@ (5000 :> [r |-> 495, x |-> 85])

\* size (1/10 mm2) -> r (1/10000 ohm/km), x (1/1000 ohm/km)
CableImpedance ==
    (15 :> [r |-> 148000, x |-> 145]) @@ (25 :> [r |-> 89100, x |-> 135]) @@
    (40 :> [r |-> 55700, x |-> 125]) @@ (60 :> [r |-> 37100, x |-> 120]) @@
    (100 :> [r |-> 22400, x |-> 115]) @@ (160 :> [r |-> 14100, x |-> 110]) @@
    (250 :> [r |-> 8890, x |-> 105]) @@ (350 :> [r |-> 6410, x |-> 100]) @@
    (500 :> [r |-> 4730, x |-> 100]) @@ (700 :> [r |-> 3280, x |-> 95]) @@
    (950 :> [r |-> 2360, x |-> 95]) @@ (1200 :> [r |-> 1880, x |-> 90]) @@
    (1500 :> [r |-> 1530, x |-> 90]) @@ (1850 :> [r |-> 1240, x |-> 90]) @@
    (2400 :> [r |-> 991, x |-> 85]) @@ (3000 :> [r |-> 795, x |-> 85]) @@
    (4000 :> [r |-> 625, x |-> 85]) @@ (5000 :> [r |-> 495, x |-> 85]) @@
    (6300 :> [r |-> 395, x |-> 85])

\* size (1/10 mm2) -> outer diameter (mm)
CableDiameters ==
    (15 :> 12) @@ (25 :> 13) @@ (40 :> 14) @@ (60 :> 15) @@ (100 :> 17) @@
    (160 :> 19) @@ (250 :> 22) @@ (350 :> 24) @@ (500 :> 27) @@ (700 :> 30) @@
    (950 :> 33) @@ (1200 :> 36) @@ (1500 :> 39) @@ (1850 :> 42) @@ (2400 :> 46) @@
    (3000 :> 50) @@ (4000 :> 55) @@ (5000 :> 60) @@ (6300 :> 65)

\* tray kind -> fill factor (1/100)
\* faulty variant: every tray kind given the fill factor of the solid tray
TrayFillFactorsSolid ==
    [perforated |-> 30, ladder |-> 30, solid |-> 30, wire_mesh |-> 30]

TrayFillFactors ==
    [perforated |-> 40, ladder |-> 40, solid |-> 30, wire_mesh |-> 35]

\* tray widths (mm)
\* faulty variant: the series ends at 750 mm
StandardTraySizesTo750 == <<50, 100, 150, 200, 300, 400, 450, 500, 600, 750>>

StandardTraySizes == <<50, 100, 150, 200, 300, 400, 450, 500, 600, 750, 900>>

\* the default of both next(...) scans in get_at_af
DefaultRating == 4000

\* math.sqrt(3), in 1/10000
Sqrt3 == 17321

\* the system voltage of the form and the reference of the drop percentage
RefVoltage == 400

\* the frame rating from which a breaker is an ACB, and up to which an MCB
AcbFrame == 800

McbFrame == 63

(***************************************************************************)
(* Bounds and inputs                                                       *)
(***************************************************************************)
\* design currents are tried at every trip rating and up to Delta/100 A off it
Delta == 1

\* a kept outcome counts up to MaxBetween later calls
MaxBetween == 2

\* selections in progress at the same time on one engine
NumThreads == 2

\* significant bits of the floating-point numbers of the generator sizing
\* (kVA in 1/8), few enough for the rounding of a sum to show
MantissaBits == 8

Threads == 1..NumThreads

Range(s) == {s[i] : i \in 1..Len(s)}

BreakerCurrents ==
    {100 * t + d : t \in Range(StandardTrips), d \in (-Delta)..Delta}
        \cup {-1698, 0, 16997, 500000}

\* arguments of select_cable_with_vd: the currents at which a cable's ampacity
\* is exactly 1.25 x the current (80 x Iz, in 1/100 A) and up to Delta off them
CableCurrents ==
    {80 * CableDb[s] + d : s \in DOMAIN CableDb, d \in (-Delta)..Delta}
        \cup {-1698, 0, 100, 16997, 500000}

Lengths == {0, 1, 50, 1000}

PowerFactors == {0, 85, 100, 110}

MaxVds == {10, 40, 80}

\* arguments of a direct calculate_voltage_drop call (8000: not a catalog size)
DropSizes == {15, 700, 6300, 8000}

DropCurrents == {-1698, 0, 2000, 16997}

\* nominal voltages of the circuits analysed: 230 V single-phase (the socket
\* circuits), 400 V three-phase (the switchboard)
SystemVoltages == {230, 400}

\* the widgets of the switchboard form
LoadKws ==
    {-10, 0, 1, 20, 40, 55, 70, 90, 100, 200, 300, 347, 400, 500, 650, 800, 1000, 1300,
     1600, 2000, 2500}

SliderPfs == {70, 85, 100}

FormLengths == {1, 50, 400}

SliderMaxVds == {10, 40, 80}

\* arguments of get_maintenance_recommendations ("Busbar": no entry of its own)
EquipmentTypes == {"MCB/MCCB", "ACB", "Cables", "Busbar"}

Statuses == {"Critical - Replace soon", "Warning - Plan replacement", "Good"}

\* containment requests: cable lists of {size, quantity}, spare percentages
\* and tray depths (mm)
CableLists ==
    { <<>>,
      <<[size |-> 15, quantity |-> 1]>>,
      <<[size |-> 500, quantity |-> 5]>>,
      <<[size |-> 500, quantity |-> 5], [size |-> 6300, quantity |-> 2]>>,
      <<[size |-> 6300, quantity |-> 10]>> }

SparePercents == {0, 20, 25}

TrayDepths == {50, 75, 100, 150}

\* arguments of calculate_generator_size, kVA in 1/8: running loads of 16.625,
\* 10 + 6.625, 1000 + 900 kVA, fire loads of 5 and 500 kVA, starting kVA of the
\* largest motor up to 2560
EssentialLoads == {<<>>, <<133>>, <<80, 53>>, <<8000, 7200>>}

FireLoads == {<<>>, <<40>>, <<4000>>}

LargestStartings == {0, 100, 133, 390, 20480}

\* energy data: one reading for each hour of the day, and two-reading days
Reading(hour, energy_kwh) == [hour |-> hour, energy_kwh |-> energy_kwh, power_kw |-> energy_kwh]

EnergyData ==
    {<<Reading(hour, energy_kwh)>> : hour \in 0..23, energy_kwh \in {0, 10}}
        \cup {<<Reading(8, 10), Reading(hour, 20)>> : hour \in {9, 13, 21, 23}}

\* arguments of generate_maintenance_schedule: a Monday, a Sunday, the last
\* day of a year, the days around the end of February of a leap year
EquipmentLists ==
    { <<>>,
      <<[type |-> "ACB", location |-> "Switchroom"]>>,
      <<[type |-> "LED Lighting", location |-> "Office"],
        [type |-> "MCB/MCCB", location |-> "Office"]>> }

Date(year, month, day) == [year |-> year, month |-> month, day |-> day]

StartDates ==
    {Date(2025, 1, 13), Date(2025, 11, 30), Date(2024, 12, 31), Date(2024, 2, 28),
     Date(2024, 2, 29), Date(2025, 1, 15)}

\* the arguments tried in a session of several calls
SessionCurrents ==
    {100 * t + d : t \in {63, 4000}, d \in (-Delta)..Delta} \cup {0, 16997}

SessionLengths == {50, 1000}

SessionPfs == {85, 110}

SessionLoadKws == {0, 100}

NoCall == [op |-> "none"]

\* the arguments of the selections that run at the same time
ConcurrentCurrents == {16997, 400001}

ConcurrentCables ==
    { [ib |-> 16997, length |-> 50, pf |-> 85, max_vd_percent |-> 40],
      [ib |-> 16997, length |-> 1000, pf |-> 85, max_vd_percent |-> 10],
      [ib |-> 16997, length |-> 50, pf |-> 110, max_vd_percent |-> 40] }

NotRunning == [pc |-> "idle"]

(***************************************************************************)
(* Float arithmetic in fixed point                                         *)
(***************************************************************************)
\* a * b / c rounded down, c > 0, without forming a * b
MulDiv(a, b, c) == (a \div c) * b + ((a % c) * b) \div c

RECURSIVE Bisect(_, _, _)
Bisect(n, lo, hi) ==
    IF lo = hi THEN lo
    ELSE LET mid == (lo + hi + 1) \div 2
         IN  IF mid * mid <= n THEN Bisect(n, mid, hi) ELSE Bisect(n, lo, mid - 1)

\* math.sqrt(n) rounded down, 0 <= n <= 10^8
ISqrt(n) == Bisect(n, 0, 10000)

(***************************************************************************)
(* get_at_af                                                               *)
(***************************************************************************)
\* faulty variant: the scan keeps x > target
FirstAbove(series, target, unit, default) ==
    LET hits == {i \in 1..Len(series) : series[i] * unit > target}
    IN  IF hits = {} THEN default
        ELSE series[CHOOSE i \in hits : \A j \in hits : i <= j]

\* next((x for x in series if x >= target), default), target in 1/unit
FirstAtLeast(series, target, unit, default) ==
    LET hits == {i \in 1..Len(series) : series[i] * unit >= target}
    IN  IF hits = {} THEN default
        ELSE series[CHOOSE i \in hits : \A j \in hits : i <= j]

\* faulty variant: a current above every trip rating falls back to the first rating
get_at_af_first(ib) ==
    LET at == FirstAtLeast(standard_trips, ib, 100, standard_trips[1])
        af == FirstAtLeast(standard_frames, at, 1, DefaultRating)
    IN  [at |-> at, af |-> af]

\* faulty variant: a current above every rating is itself taken as the rating
get_at_af_unclamped(ib) ==
    LET at == FirstAtLeast(standard_trips, ib, 100, (ib + 99) \div 100)
        af == FirstAtLeast(standard_frames, at, 1, at)
    IN  [at |-> at, af |-> af]

get_at_af(ib) ==
    LET at == FirstAtLeast(standard_trips, ib, 100, DefaultRating)
        af == FirstAtLeast(standard_frames, at, 1, DefaultRating)
    IN  [at |-> at, af |-> af]

(***************************************************************************)
(* calculate_voltage_drop                                                  *)
(***************************************************************************)
\* (None, None) for an unknown size; math.sqrt raises ValueError when pf > 1
calculate_voltage_drop(cable_size, current, length, pf) ==
    IF cable_size \notin DOMAIN cable_impedance THEN [tag |-> "None"]
    ELSE IF pf * pf > 10000 THEN [tag |-> "raise"]
    ELSE LET impedance == cable_impedance[cable_size]
             \* sqrt(1 - pf**2), in 1/10000
             sin_phi == ISqrt(100000000 - 10000 * pf * pf)
             \* r * pf + x * sin_phi, in 1/1000000 ohm/km
             z == impedance.r * pf + (impedance.x * sin_phi) \div 10
             v_drop_per_km == MulDiv(MulDiv(z, current, 1000), Sqrt3, 10000)
             v_drop == MulDiv(v_drop_per_km, length, 1000)
             v_drop_percent == MulDiv(v_drop, 100, RefVoltage)
         IN  [tag |-> "value", v_drop |-> v_drop, v_drop_percent |-> v_drop_percent]

(***************************************************************************)
(* select_cable_with_vd                                                    *)
(***************************************************************************)
\* faulty variant: the 25 % margin on the design current is dropped
CarriesCurrentNoMargin(iz, ib) == iz * 100 >= ib

\* iz >= ib * 1.25, ib in 1/100 A
CarriesCurrent(iz, ib) == iz * 400 >= ib * 5

\* "vd_percent and vd_percent <= max_vd_percent": None and 0.0 are false
WithinDrop(vd, max_vd_percent) ==
    /\ vd.tag = "value"
    /\ vd.v_drop_percent # 0
    /\ vd.v_drop_percent <= max_vd_percent * 10000

Smallest(S) == CHOOSE s \in S : \A t \in S : s <= t

\* faulty variant: the fallback takes the smallest size
LargestAsMin(S) == CHOOSE s \in S : \A t \in S : s <= t

Largest(S) == CHOOSE s \in S : \A t \in S : s >= t

select_cable_with_vd(ib, length, pf, max_vd_percent) ==
    LET current_suitable == {s \in DOMAIN cable_db : CarriesCurrent(cable_db[s], ib)}
        drop == [s \in current_suitable |-> calculate_voltage_drop(s, ib, length, pf)]
        suitable_cables == {s \in current_suitable : WithinDrop(drop[s], max_vd_percent)}
        entry(s, tag) ==
            [tag |-> tag, size |-> s, iz |-> cable_db[s], vd |-> drop[s].v_drop,
             vd_percent |-> drop[s].v_drop_percent]
    IN  IF \E s \in current_suitable : drop[s].tag = "raise" THEN [tag |-> "raise"]
        ELSE IF suitable_cables # {} THEN entry(Smallest(suitable_cables), "result")
        ELSE IF current_suitable # {}
             THEN LET largest == Largest(current_suitable)
                  IN  \* formatting None with :.2f raises TypeError
                      IF drop[largest].tag = "None" THEN [tag |-> "raise"]
                      ELSE entry(largest, "warning")
        ELSE [tag |-> "error"]

(***************************************************************************)
(* tab2: design current and breaker class                                  *)
(***************************************************************************)
\* faulty variant: the single-phase formula, without sqrt(3)
DesignCurrentSinglePhase(load_kw, pf) ==
    IF pf = 0 THEN [tag |-> "raise"]
    ELSE [tag |-> "value", ib |-> MulDiv(load_kw * 10000, 1000, RefVoltage * pf)]

\* ib = (load_kw * 1000) / (math.sqrt(3) * 400 * pf), in 1/100 A; the division
\* raises ZeroDivisionError when pf = 0
DesignCurrent(load_kw, pf) ==
    IF pf = 0 THEN [tag |-> "raise"]
    ELSE [tag |-> "value",
          ib |-> MulDiv(load_kw * 10000, 1000, (Sqrt3 * RefVoltage * pf) \div 10000)]

\* faulty variant: a 63 A frame counts as an MCCB
BreakerTypeFrom63(af) ==
    IF af >= AcbFrame THEN "ACB" ELSE IF af >= McbFrame THEN "MCCB" ELSE "MCB"

BreakerType(af) ==
    IF af >= AcbFrame THEN "ACB" ELSE IF af > McbFrame THEN "MCCB" ELSE "MCB"

(***************************************************************************)
(* get_maintenance_recommendations                                         *)
(***************************************************************************)
\* the dict literal built by each call
recommendations ==
    [t \in {"LED Lighting", "MCB/MCCB", "ACB", "Cables", "Generator", "UPS Battery",
            "Fan Motor", "Pump Motor"} |->
        CASE t = "LED Lighting" ->
                <<"Clean fixtures", "Check for flickering", "Verify lux levels",
                  "Check emergency backup">>
          [] t = "MCB/MCCB" ->
                <<"Exercise breakers", "Thermal imaging", "Check for tripping",
                  "Verify calibration">>
          [] t = "ACB" ->
                <<"Check arc chutes", "Lubricate mechanism", "Test protection settings",
                  "Clean contacts">>
          [] t = "Cables" ->
                <<"Insulation resistance test", "Check for overheating",
                  "Verify terminations", "Check for physical damage">>
          [] t = "Generator" ->
                <<"Change oil and filters", "Check coolant", "Test under load",
                  "Check battery health", "Inspect exhaust system">>
          [] t = "UPS Battery" ->
                <<"Load test", "Check electrolyte", "Clean terminals", "Verify runtime">>
          [] t = "Fan Motor" ->
                <<"Check bearings", "Clean blades", "Verify airflow", "Check vibration">>
          [] OTHER ->
                <<"Check seals", "Verify pressure", "Check for leaks",
                  "Test automatic controls">>]

\* the appends change the list of the call's own dict, never the engine
get_maintenance_recommendations(equipment_type, status) ==
    LET base_recs == IF equipment_type \in DOMAIN recommendations
                     THEN recommendations[equipment_type]
                     ELSE <<"General inspection">>
    IN  IF status = "Critical - Replace soon"
        THEN base_recs \o <<"IMMEDIATE ACTION REQUIRED", "Order replacement parts">>
        ELSE IF status = "Warning - Plan replacement"
        THEN base_recs \o <<"Schedule replacement within 3 months", "Budget for replacement">>
        ELSE base_recs

(***************************************************************************)
(* Actions                                                                 *)
(***************************************************************************)
Init ==
    /\ standard_frames = StandardFrames
    /\ standard_trips = StandardTrips
    /\ cable_db = CableDb
    /\ cable_diameters = CableDiameters
    /\ cable_impedance = CableImpedance
    /\ tray_fill_factors = TrayFillFactors
    /\ standard_tray_sizes = StandardTraySizes
    /\ out = NoCall
    /\ prev = NoCall
    /\ kept = NoCall
    /\ threads = [t \in Threads |-> NotRunning]

\* a call starts when no outcome is held
Idle == out.op = "none"

\* a second get_at_af call may follow a first one, whose outcome is kept in prev
Comparing == out.op \in {"none", "get_at_af"} /\ prev.op = "none"

\* faulty variant: the trip series is an iterator, and next() uses up the
\* ratings it has scanned
GetAtAfConsuming(ib) ==
    /\ Comparing
    /\ LET r == get_at_af(ib)
           scanned == {i \in 1..Len(standard_trips) : standard_trips[i] <= r.at}
       IN  /\ out' = [op |-> "get_at_af", ib |-> ib, at |-> r.at, af |-> r.af]
           /\ standard_trips' =
                 SubSeq(standard_trips, Cardinality(scanned) + 1, Len(standard_trips))
    /\ prev' = out
    /\ UNCHANGED <<standard_frames, cable_db, cable_diameters, cable_impedance,
                   tray_fill_factors, standard_tray_sizes, kept, threads>>

\* a caller invokes engine.get_at_af(ib)
GetAtAf(ib) ==
    /\ Comparing
    /\ LET r == get_at_af(ib)
       IN  out' = [op |-> "get_at_af", ib |-> ib, at |-> r.at, af |-> r.af]
    /\ prev' = out
    /\ UNCHANGED <<catalog, kept, threads>>

\* a caller analysing a circuit of nominal voltage system_voltage invokes
\* engine.calculate_voltage_drop, which takes no voltage
CalculateVoltageDrop(system_voltage, cable_size, current, length, pf) ==
    /\ Idle
    /\ out' = [op |-> "calculate_voltage_drop", system_voltage |-> system_voltage,
               cable_size |-> cable_size,
               current |-> current, length |-> length, pf |-> pf,
               ret |-> calculate_voltage_drop(cable_size, current, length, pf)]
    /\ UNCHANGED <<catalog, prev, kept, threads>>

\* a caller invokes engine.select_cable_with_vd
SelectCableWithVd(ib, length, pf, max_vd_percent) ==
    /\ Idle
    /\ out' = [op |-> "select_cable_with_vd", ib |-> ib, length |-> length, pf |-> pf,
               max_vd_percent |-> max_vd_percent,
               ret |-> select_cable_with_vd(ib, length, pf, max_vd_percent)]
    /\ UNCHANGED <<catalog, prev, kept, threads>>

\* the button of the switchboard form, with the widgets' values
Tab2Calculate(load_kw, pf, cable_length, max_vd) ==
    /\ Idle
    /\ LET d == DesignCurrent(load_kw, pf)
           form == [op |-> "tab2", load_kw |-> load_kw, pf |-> pf,
                    cable_length |-> cable_length, max_vd |-> max_vd]
       IN  IF d.tag = "raise"
           THEN out' = form @@ [tag |-> "raise"]
           ELSE LET b == get_at_af(d.ib)
                    cable == select_cable_with_vd(d.ib, cable_length, pf, max_vd)
                IN  out' = form @@ [tag |-> IF cable.tag = "raise" THEN "raise" ELSE "shown",
                                    ib |-> d.ib, at |-> b.at, af |-> b.af,
                                    b_type |-> BreakerType(b.af), cable |-> cable]
    /\ UNCHANGED <<catalog, prev, kept, threads>>

\* a caller invokes engine.get_maintenance_recommendations
GetMaintenanceRecommendations(equipment_type, status) ==
    /\ Idle
    /\ out' = [op |-> "get_maintenance_recommendations",
               equipment_type |-> equipment_type, status |-> status,
               ret |-> get_maintenance_recommendations(equipment_type, status)]
    /\ UNCHANGED <<catalog, prev, kept, threads>>

(***************************************************************************)
(* Containment sizing (specification 4.4), trays: the sizing routine is    *)
(* not part of src/app.py, which holds only its tables.  Areas in          *)
(* 1/100 mm2, widths in 1/100 mm, fill percentages in 1/100 %.             *)
(***************************************************************************)
\* pi in 1/10000
Pi == 31416

\* area = pi * (diameter / 2)^2
cableArea(size) == (Pi * cable_diameters[size] * cable_diameters[size]) \div 400

RECURSIVE totalArea(_)
totalArea(cables) ==
    IF cables = <<>> THEN 0
    ELSE Head(cables).quantity * cableArea(Head(cables).size) + totalArea(Tail(cables))

totalAreaWithSpare(cables, sparePercent) ==
    MulDiv(totalArea(cables), 100 + sparePercent, 100)

\* requiredWidth = totalAreaWithSpare / (depthMm * fillFactor)
requiredWidth(withSpare, kind, depthMm) ==
    MulDiv(withSpare, 100, depthMm * tray_fill_factors[kind])

\* faulty variant: the width is sized for the present cables, without the spare
sizeContainmentNoSpare(cables, kind, sparePercent, depthMm) ==
    LET total == totalArea(cables)
        withSpare == totalAreaWithSpare(cables, sparePercent)
        required == requiredWidth(total, kind, depthMm)
        hits == {i \in DOMAIN standard_tray_sizes : standard_tray_sizes[i] * 100 >= required}
        width == standard_tray_sizes[CHOOSE i \in hits : \A j \in hits : i <= j]
    IN  IF hits = {}
        THEN [tag |-> "NoSuitableStandardSize", totalArea |-> total,
              totalAreaWithSpare |-> withSpare, requiredWidth |-> required]
        ELSE [tag |-> "result", selectedDimension |-> width, totalArea |-> total,
              totalAreaWithSpare |-> withSpare, requiredWidth |-> required,
              fillPercent |-> MulDiv(total, 100, width * depthMm),
              adequate |-> TRUE]

\* tray: first standard width >= requiredWidth; actualFillPercent =
\* totalArea / (selectedWidth * depthMm); adequate iff the fill with spare is
\* within the fill factor; NoSuitableStandardSize when no width is enough
sizeContainment(cables, kind, sparePercent, depthMm) ==
    LET total == totalArea(cables)
        withSpare == totalAreaWithSpare(cables, sparePercent)
        required == requiredWidth(withSpare, kind, depthMm)
        hits == {i \in DOMAIN standard_tray_sizes : standard_tray_sizes[i] * 100 >= required}
        width == standard_tray_sizes[CHOOSE i \in hits : \A j \in hits : i <= j]
    IN  IF hits = {}
        THEN [tag |-> "NoSuitableStandardSize", totalArea |-> total,
              totalAreaWithSpare |-> withSpare, requiredWidth |-> required]
        ELSE [tag |-> "result", selectedDimension |-> width, totalArea |-> total,
              totalAreaWithSpare |-> withSpare, requiredWidth |-> required,
              fillPercent |-> MulDiv(total, 100, width * depthMm),
              adequate |-> withSpare <= width * depthMm * tray_fill_factors[kind]]

\* a caller sizes a tray for a cable list
SizeContainment(cables, kind, sparePercent, depthMm) ==
    /\ Idle
    /\ out' = [op |-> "sizeContainment", cables |-> cables, kind |-> kind,
               sparePercent |-> sparePercent, depthMm |-> depthMm,
               ret |-> sizeContainment(cables, kind, sparePercent, depthMm)]
    /\ UNCHANGED <<catalog, prev, kept, threads>>

\* the outcomes are locals of the caller: the next run starts without them; a
\* kept outcome counts the calls that returned since it was kept
Rerun ==
    /\ out.op # "none"
    /\ out' = NoCall
    /\ prev' = NoCall
    /\ kept' = IF kept.op # "none" /\ kept.since < MaxBetween
               THEN [kept EXCEPT !.since = @ + 1]
               ELSE kept
    /\ UNCHANGED <<catalog, threads>>

\* the caller keeps the outcome of a call to compare it with a later one
Keep ==
    /\ out.op \in {"get_at_af", "select_cable_with_vd", "get_maintenance_recommendations"}
    /\ kept.op = "none"
    /\ kept' = [op |-> "kept", call |-> out, since |-> 0]
    /\ out' = NoCall
    /\ prev' = NoCall
    /\ UNCHANGED <<catalog, threads>>

BreakerCall == \E ib \in BreakerCurrents : GetAtAf(ib)

DropCall ==
    \E system_voltage \in SystemVoltages, cable_size \in DropSizes,
       current \in DropCurrents, length \in Lengths, pf \in PowerFactors :
        CalculateVoltageDrop(system_voltage, cable_size, current, length, pf)

CableCall ==
    \E ib \in CableCurrents, length \in Lengths, pf \in PowerFactors,
       max_vd_percent \in MaxVds :
        SelectCableWithVd(ib, length, pf, max_vd_percent)

FormCall ==
    \E load_kw \in LoadKws, pf \in SliderPfs, cable_length \in FormLengths,
       max_vd \in SliderMaxVds :
        Tab2Calculate(load_kw, pf, cable_length, max_vd)

MaintenanceCall ==
    \E equipment_type \in EquipmentTypes, status \in Statuses :
        GetMaintenanceRecommendations(equipment_type, status)

(***************************************************************************)
(* calculate_generator_size: kVA in 1/8 as floating-point numbers of       *)
(* MantissaBits significant bits, each operation rounded to nearest, ties  *)
(* to even                                                                 *)
(***************************************************************************)
RECURSIVE BitLength(_)
BitLength(n) == IF n = 0 THEN 0 ELSE 1 + BitLength(n \div 2)

RECURSIVE Pow2(_)
Pow2(k) == IF k = 0 THEN 1 ELSE 2 * Pow2(k - 1)

Abs(x) == IF x < 0 THEN -x ELSE x

\* num / den rounded to the nearest representable number
FloatOf(num, den) ==
    LET a == Abs(num)
        excess == BitLength(a \div den) - MantissaBits
        quantum == Pow2(IF excess > 0 THEN excess ELSE 0)
        d == den * quantum
        k == a \div d
        r == a - k * d
        up == 2 * r > d \/ (2 * r = d /\ k % 2 = 1)
        m == (IF up THEN k + 1 ELSE k) * quantum
    IN  IF num < 0 THEN -m ELSE m

Float(x) == FloatOf(x, 1)

\* sum(loads): the loads added one by one from 0, left to right
RECURSIVE sum(_)
sum(loads) ==
    IF loads = <<>> THEN 0
    ELSE Float(sum(SubSeq(loads, 1, Len(loads) - 1)) + loads[Len(loads)])

Max(a, b) == IF a >= b THEN a ELSE b

\* standard_gen_sizes, kVA
StandardGenSizes ==
    <<20, 30, 45, 60, 80, 100, 125, 150, 200, 250, 300, 400, 500, 630, 750, 800, 1000,
      1250, 1500, 2000>>

calculate_generator_size(essential_loads, fire_loads, largest_motor_starting_kva) ==
    LET total_running_kva == Float(sum(essential_loads) + sum(fire_loads))
        other_running_kva == Float(total_running_kva - largest_motor_starting_kva)
        starting_scenario_kva == Float(other_running_kva + largest_motor_starting_kva)
        required_gen_size == FloatOf(Max(total_running_kva, starting_scenario_kva) * 6, 5)
        hits == {i \in DOMAIN StandardGenSizes : StandardGenSizes[i] * 8 >= required_gen_size}
        recommended_gen ==
            IF hits = {} THEN required_gen_size
            ELSE StandardGenSizes[CHOOSE i \in hits : \A j \in hits : i <= j] * 8
    IN  [required_gen_size |-> required_gen_size, recommended_gen |-> recommended_gen,
         total_running_kva |-> total_running_kva,
         starting_scenario_kva |-> starting_scenario_kva]

\* a caller invokes engine.calculate_generator_size
CalculateGeneratorSize(essential_loads, fire_loads, largest_motor_starting_kva) ==
    /\ Idle
    /\ out' = [op |-> "calculate_generator_size", essential_loads |-> essential_loads,
               fire_loads |-> fire_loads,
               largest_motor_starting_kva |-> largest_motor_starting_kva,
               ret |-> calculate_generator_size(essential_loads, fire_loads,
                                                largest_motor_starting_kva)]
    /\ UNCHANGED <<catalog, prev, kept, threads>>

GeneratorCall ==
    \E essential_loads \in EssentialLoads, fire_loads \in FireLoads,
       largest_motor_starting_kva \in LargestStartings :
        CalculateGeneratorSize(essential_loads, fire_loads, largest_motor_starting_kva)

(***************************************************************************)
(* energy_analytics_dashboard: energy in kWh, power in kW, carbon in       *)
(* 1/10 kg, rates and cost in 1/100 SGD                                    *)
(***************************************************************************)
\* the rate of the branch that bills the hour: "22 <= hour <= 7" holds for no
\* hour
rate(hour) ==
    IF (9 <= hour /\ hour <= 12) \/ (18 <= hour /\ hour <= 20) THEN 30
    ELSE IF 22 <= hour /\ hour <= 7 THEN 15
    ELSE 22

RECURSIVE TotalEnergy(_)
\* the sum of the energy of the rows
TotalEnergy(rows) ==
    IF rows = <<>> THEN 0 ELSE Head(rows).energy_kwh + TotalEnergy(Tail(rows))

RECURSIVE TotalCost(_)
\* the cost accumulated over the rows, each billed at the rate of its hour
TotalCost(rows) ==
    IF rows = <<>> THEN 0
    ELSE Head(rows).energy_kwh * rate(Head(rows).hour) + TotalCost(Tail(rows))

energy_analytics_dashboard(energy_data) ==
    LET total_energy == TotalEnergy(energy_data)
        peak_demand == Largest({energy_data[i].power_kw : i \in DOMAIN energy_data})
        cost == TotalCost(energy_data)
    IN  [total_energy_kwh |-> total_energy, peak_demand_kw |-> peak_demand,
         avg_power_factor |-> 85, carbon_footprint_kg |-> total_energy * 5,
         total_cost_sgd |-> cost, cost_per_m2 |-> "N/A"]

\* a caller invokes engine.energy_analytics_dashboard
EnergyAnalyticsDashboard(energy_data) ==
    /\ Idle
    /\ out' = [op |-> "energy_analytics_dashboard", energy_data |-> energy_data,
               ret |-> energy_analytics_dashboard(energy_data)]
    /\ UNCHANGED <<catalog, prev, kept, threads>>

EnergyCall == \E energy_data \in EnergyData : EnergyAnalyticsDashboard(energy_data)

(***************************************************************************)
(* generate_maintenance_schedule: dates as [year, month, day]; the         *)
(* "%Y-%m-%d" strings of four-digit years order as <<year, month, day>>    *)
(***************************************************************************)
\* maintenance_templates, in the order of the dictionary
MaintenanceTemplates ==
    <<
      [period |-> "daily",
       tasks |-> <<
           [task |-> "Generator visual check", duration_min |-> 15, criticality |-> "High"],
           [task |-> "Battery charger status", duration_min |-> 5, criticality |-> "Medium"],
           [task |-> "Fuel level check", duration_min |-> 5, criticality |-> "High"],
           [task |-> "Alarm panel check", duration_min |-> 10, criticality |-> "High"],
           [task |-> "Switchroom temperature", duration_min |-> 5, criticality |-> "Medium"]>>],
      [period |-> "weekly",
       tasks |-> <<
           [task |-> "Generator run test (30 mins)", duration_min |-> 45, criticality |-> "High"],
           [task |-> "Battery voltage measurement", duration_min |-> 15, criticality |-> "Medium"],
           [task |-> "Coolant level check", duration_min |-> 10, criticality |-> "Medium"],
           [task |-> "Emergency lighting test", duration_min |-> 20, criticality |-> "High"],
           [task |-> "Fire pump test run", duration_min |-> 15, criticality |-> "High"]>>],
      [period |-> "monthly",
       tasks |-> <<
           [task |-> "Earth resistance measurement", duration_min |-> 60, criticality |-> "High"],
           [task |-> "Load bank test", duration_min |-> 120, criticality |-> "High"],
           [task |-> "Circuit breaker exercise", duration_min |-> 45, criticality |-> "Medium"],
           [task |-> "Thermal imaging scan", duration_min |-> 90, criticality |-> "High"],
           [task |-> "UPS battery test", duration_min |-> 30, criticality |-> "High"]>>],
      [period |-> "quarterly",
       tasks |-> <<
           [task |-> "Insulation resistance test", duration_min |-> 180, criticality |-> "High"],
           [task |-> "Protection relay calibration", duration_min |-> 240, criticality |-> "High"],
           [task |-> "Battery load test", duration_min |-> 60, criticality |-> "High"],
           [task |-> "Fuel system check", duration_min |-> 45, criticality |-> "Medium"]>>],
      [period |-> "annually",
       tasks |-> <<
           [task |-> "Full load generator test", duration_min |-> 240, criticality |-> "High"],
           [task |-> "Oil and filter change", duration_min |-> 120, criticality |-> "High"],
           [task |-> "Coolant replacement", duration_min |-> 90, criticality |-> "Medium"],
           [task |-> "Professional inspection", duration_min |-> 480, criticality |-> "High"],
           [task |-> "Comprehensive system report", duration_min |-> 120, criticality |-> "Medium"]>>] >>

IsLeap(year) == year % 4 = 0 /\ (year % 100 # 0 \/ year % 400 = 0)

DaysInMonth(year, month) ==
    IF month = 2 THEN (IF IsLeap(year) THEN 29 ELSE 28)
    ELSE IF month \in {4, 6, 9, 11} THEN 30 ELSE 31

RECURSIVE DaysBeforeMonth(_, _)
DaysBeforeMonth(year, month) ==
    IF month = 1 THEN 0
    ELSE DaysBeforeMonth(year, month - 1) + DaysInMonth(year, month - 1)

\* date.toordinal()
Ordinal(date) ==
    LET y == date.year - 1
    IN  y * 365 + y \div 4 - y \div 100 + y \div 400
            + DaysBeforeMonth(date.year, date.month) + date.day

\* date.weekday(): Monday is 0
Weekday(date) == (Ordinal(date) + 6) % 7

NextDay(date) ==
    IF date.day < DaysInMonth(date.year, date.month) THEN [date EXCEPT !.day = @ + 1]
    ELSE IF date.month < 12 THEN [year |-> date.year, month |-> date.month + 1, day |-> 1]
    ELSE [year |-> date.year + 1, month |-> 1, day |-> 1]

RECURSIVE AddDays(_, _)
\* date + timedelta(days=days)
AddDays(date, days) ==
    LET left == DaysInMonth(date.year, date.month) - date.day
    IN  IF days <= left THEN [date EXCEPT !.day = @ + days]
        ELSE AddDays(NextDay([date EXCEPT !.day = @ + left]), days - left - 1)

\* the due date of a task of the period; replace(year=...) raises ValueError
\* when the day does not exist in that year
DueDate(period, current_date) ==
    IF period = "daily" THEN [tag |-> "value", date |-> current_date]
    ELSE IF period = "weekly"
         THEN [tag |-> "value", date |-> AddDays(current_date, 7 - Weekday(current_date))]
    ELSE IF period = "monthly"
         THEN [tag |-> "value",
               date |-> [AddDays([current_date EXCEPT !.day = 1], 32) EXCEPT !.day = 1]]
    ELSE IF period = "quarterly" THEN [tag |-> "value", date |-> AddDays(current_date, 90)]
    ELSE IF current_date.day > DaysInMonth(current_date.year + 1, current_date.month)
         THEN [tag |-> "raise"]
    ELSE [tag |-> "value", date |-> [current_date EXCEPT !.year = @ + 1]]

\* a < b for the strings of two dates
Earlier(a, b) ==
    \/ a.year < b.year
    \/ a.year = b.year /\ a.month < b.month
    \/ a.year = b.year /\ a.month = b.month /\ a.day < b.day

\* the entries appended for one equipment, period by period, task by task
RECURSIVE EntriesOf(_, _, _, _)
EntriesOf(equipment, current_date, p, t) ==
    IF p > Len(MaintenanceTemplates) THEN <<>>
    ELSE IF t > Len(MaintenanceTemplates[p].tasks)
         THEN EntriesOf(equipment, current_date, p + 1, 1)
    ELSE LET period == MaintenanceTemplates[p].period
             task == MaintenanceTemplates[p].tasks[t]
         IN  <<[equipment |-> equipment.type, location |-> equipment.location,
                task |-> task.task, period |-> period,
                due_date |-> DueDate(period, current_date).date,
                duration_min |-> task.duration_min, criticality |-> task.criticality,
                assigned_to |-> "", status |-> "Pending"]>>
                 \o EntriesOf(equipment, current_date, p, t + 1)

RECURSIVE Appended(_, _)
Appended(equipment_list, current_date) ==
    IF equipment_list = <<>> THEN <<>>
    ELSE EntriesOf(Head(equipment_list), current_date, 1, 1)
             \o Appended(Tail(equipment_list), current_date)

RECURSIVE InsertByDue(_, _)
\* the entry placed after the entries that are not due later (the sort is stable)
InsertByDue(entry, sorted) ==
    IF sorted = <<>> THEN <<entry>>
    ELSE IF Earlier(entry.due_date, sorted[Len(sorted)].due_date)
         THEN InsertByDue(entry, SubSeq(sorted, 1, Len(sorted) - 1))
                  \o <<sorted[Len(sorted)]>>
    ELSE sorted \o <<entry>>

RECURSIVE SortByDue(_)
\* schedule.sort(key=lambda x: x['due_date'])
SortByDue(schedule) ==
    IF schedule = <<>> THEN <<>>
    ELSE InsertByDue(schedule[Len(schedule)],
                     SortByDue(SubSeq(schedule, 1, Len(schedule) - 1)))

generate_maintenance_schedule(equipment_list, start_date) ==
    IF equipment_list # <<>>
       /\ \E p \in DOMAIN MaintenanceTemplates :
              DueDate(MaintenanceTemplates[p].period, start_date).tag = "raise"
    THEN [tag |-> "raise"]
    ELSE [tag |-> "value", schedule |-> SortByDue(Appended(equipment_list, start_date))]

\* a caller invokes engine.generate_maintenance_schedule
GenerateMaintenanceSchedule(equipment_list, start_date) ==
    /\ Idle
    /\ out' = [op |-> "generate_maintenance_schedule", equipment_list |-> equipment_list,
               start_date |-> start_date,
               ret |-> generate_maintenance_schedule(equipment_list, start_date)]
    /\ UNCHANGED <<catalog, prev, kept, threads>>

ScheduleCall ==
    \E equipment_list \in EquipmentLists, start_date \in StartDates :
        GenerateMaintenanceSchedule(equipment_list, start_date)

ContainmentCall ==
    \E cables \in CableLists, kind \in DOMAIN tray_fill_factors,
       sparePercent \in SparePercents, depthMm \in TrayDepths :
        SizeContainment(cables, kind, sparePercent, depthMm)

Next ==
    \/ Comparing /\ BreakerCall
    \/ Idle /\ DropCall
    \/ Idle /\ CableCall
    \/ Idle /\ FormCall
    \/ Idle /\ MaintenanceCall
    \/ Idle /\ ContainmentCall
    \/ Idle /\ GeneratorCall
    \/ Idle /\ EnergyCall
    \/ Idle /\ ScheduleCall
    \/ Rerun

Spec == Init /\ [][Next]_vars

(***************************************************************************)
(* A session: several calls in a row, one earlier outcome kept             *)
(***************************************************************************)
SessionBreakerCall == \E ib \in SessionCurrents : GetAtAf(ib)

SessionDropCall ==
    \E cable_size \in {700, 8000}, current \in SessionCurrents, length \in SessionLengths,
       pf \in SessionPfs :
        CalculateVoltageDrop(400, cable_size, current, length, pf)

SessionCableCall ==
    \E ib \in SessionCurrents, length \in SessionLengths, pf \in SessionPfs,
       max_vd_percent \in {40} :
        SelectCableWithVd(ib, length, pf, max_vd_percent)

SessionFormCall ==
    \E load_kw \in SessionLoadKws, pf \in {85}, cable_length \in SessionLengths,
       max_vd \in {40} :
        Tab2Calculate(load_kw, pf, cable_length, max_vd)

(***************************************************************************)
(* Selections running at the same time on one engine: each thread runs     *)
(* the statements of get_at_af or select_cable_with_vd one at a time, the  *)
(* loop over cable_db one item at a time, with its locals in threads[t].   *)
(***************************************************************************)
Running(t) == threads[t].pc \notin {"idle", "done"}

OthersUnchanged == UNCHANGED <<out, prev, kept>>

StartGetAtAf(t, ib) ==
    /\ threads[t].pc = "idle"
    /\ threads' = [threads EXCEPT ![t] =
           [pc |-> "trips", op |-> "get_at_af", ib |-> ib]]
    /\ UNCHANGED catalog
    /\ OthersUnchanged

\* faulty variant: the trip series is an iterator shared by the threads, and
\* next() uses up the ratings it has scanned
ScanTripsConsuming(t) ==
    /\ threads[t].pc = "trips"
    /\ LET at == FirstAtLeast(standard_trips, threads[t].ib, 100, DefaultRating)
           scanned == {i \in 1..Len(standard_trips) : standard_trips[i] <= at}
       IN  /\ threads' = [threads EXCEPT ![t] =
                  [pc |-> "frames", op |-> "get_at_af", ib |-> threads[t].ib, at |-> at]]
           /\ standard_trips' =
                 SubSeq(standard_trips, Cardinality(scanned) + 1, Len(standard_trips))
    /\ UNCHANGED <<standard_frames, cable_db, cable_diameters, cable_impedance,
                   tray_fill_factors, standard_tray_sizes>>
    /\ OthersUnchanged

\* at = next((x for x in self.standard_trips if x >= ib), 4000)
ScanTrips(t) ==
    /\ threads[t].pc = "trips"
    /\ LET at == FirstAtLeast(standard_trips, threads[t].ib, 100, DefaultRating)
       IN  threads' = [threads EXCEPT ![t] =
              [pc |-> "frames", op |-> "get_at_af", ib |-> threads[t].ib, at |-> at]]
    /\ UNCHANGED catalog
    /\ OthersUnchanged

\* af = next((x for x in self.standard_frames if x >= at), 4000); return at, af
ScanFrames(t) ==
    /\ threads[t].pc = "frames"
    /\ LET af == FirstAtLeast(standard_frames, threads[t].at, 1, DefaultRating)
       IN  threads' = [threads EXCEPT ![t] =
              [pc |-> "done", op |-> "get_at_af", ib |-> threads[t].ib,
               ret |-> [at |-> threads[t].at, af |-> af]]]
    /\ UNCHANGED catalog
    /\ OthersUnchanged

\* the k-th key of a table in its iteration order, the ascending order of
\* construction
Item(db, k) == CHOOSE s \in DOMAIN db : Cardinality({r \in DOMAIN db : r < s}) = k - 1

StartSelectCable(t, args) ==
    /\ threads[t].pc = "idle"
    /\ threads' = [threads EXCEPT ![t] =
           [pc |-> "scan", op |-> "select_cable_with_vd", args |-> args, k |-> 0,
            suitable_cables |-> {}]]
    /\ UNCHANGED catalog
    /\ OthersUnchanged

Finished(t, ret) ==
    [pc |-> "done", op |-> threads[t].op, args |-> threads[t].args, ret |-> ret]

\* one iteration of "for size, iz in self.cable_db.items()"; after the last
\* one, "if suitable_cables: return min(...)"
ScanCable(t) ==
    /\ threads[t].pc = "scan"
    /\ LET me == threads[t]
           a == me.args
       IN  IF me.k < Cardinality(DOMAIN cable_db)
           THEN LET size == Item(cable_db, me.k + 1)
                    iz == cable_db[size]
                    vd == calculate_voltage_drop(size, a.ib, a.length, a.pf)
                IN  IF ~CarriesCurrent(iz, a.ib)
                    THEN threads' = [threads EXCEPT ![t].k = @ + 1]
                    ELSE IF vd.tag = "raise"
                    THEN threads' = [threads EXCEPT ![t] = Finished(t, [tag |-> "raise"])]
                    ELSE IF WithinDrop(vd, a.max_vd_percent)
                    THEN threads' = [threads EXCEPT
                             ![t].k = @ + 1,
                             ![t].suitable_cables = @ \cup
                                 {[tag |-> "result", size |-> size, iz |-> iz,
                                   vd |-> vd.v_drop, vd_percent |-> vd.v_drop_percent]}]
                    ELSE threads' = [threads EXCEPT ![t].k = @ + 1]
           ELSE IF me.suitable_cables # {}
           THEN threads' = [threads EXCEPT ![t] =
                    Finished(t, CHOOSE c \in me.suitable_cables :
                                    \A d \in me.suitable_cables : c.size <= d.size)]
           ELSE threads' = [threads EXCEPT ![t].pc = "fallback"]
    /\ UNCHANGED catalog
    /\ OthersUnchanged

\* the else branch: current_suitable, the largest of it with its drop and the
\* warning, or the error
Fallback(t) ==
    /\ threads[t].pc = "fallback"
    /\ LET a == threads[t].args
           current_suitable == {s \in DOMAIN cable_db : CarriesCurrent(cable_db[s], a.ib)}
           largest == Largest(current_suitable)
           vd == calculate_voltage_drop(largest, a.ib, a.length, a.pf)
       IN  threads' = [threads EXCEPT ![t] =
              Finished(t, IF current_suitable = {} THEN [tag |-> "error"]
                          ELSE IF vd.tag \in {"raise", "None"} THEN [tag |-> "raise"]
                          ELSE [tag |-> "warning", size |-> largest, iz |-> cable_db[largest],
                                vd |-> vd.v_drop, vd_percent |-> vd.v_drop_percent])]
    /\ UNCHANGED catalog
    /\ OthersUnchanged

\* the caller takes the outcome; the thread may run another selection
Return(t) ==
    /\ threads[t].pc = "done"
    /\ threads' = [threads EXCEPT ![t] = NotRunning]
    /\ UNCHANGED catalog
    /\ OthersUnchanged

ConcurrentNext ==
    \E t \in Threads :
        \/ \E ib \in ConcurrentCurrents : StartGetAtAf(t, ib)
        \/ ScanTrips(t)
        \/ ScanFrames(t)
        \/ \E args \in ConcurrentCables : StartSelectCable(t, args)
        \/ ScanCable(t)
        \/ Fallback(t)
        \/ Return(t)

SpecConcurrent == Init /\ [][ConcurrentNext]_vars

SessionNext ==
    \/ Comparing /\ SessionBreakerCall
    \/ Idle /\ SessionDropCall
    \/ Idle /\ SessionCableCall
    \/ Idle /\ SessionFormCall
    \/ Idle /\ MaintenanceCall
    \/ Keep
    \/ Rerun

SpecSession == Init /\ [][SessionNext]_vars

(***************************************************************************)
(* Breaker selection                                                       *)
(***************************************************************************)
Trips == Range(standard_trips)

Frames == Range(standard_frames)

\* v is the smallest value of the set S of ratings (A) that is >= target (1/100 A)
SmallestAtLeast(v, S, target) ==
    /\ v \in S
    /\ v * 100 >= target
    /\ \A t \in S : t * 100 >= target => v <= t

\* C1 as stated: for every design current the trip rating returned by get_at_af
\* is the smallest trip rating of the catalog that is >= the design current.
C1_TripSmallestAtLeast ==
    out.op = "get_at_af" => SmallestAtLeast(out.at, Trips, out.ib)

\* C1 amended: for a design current up to the largest trip rating (4000 A) the
\* trip rating returned is the smallest trip rating >= the current; for a
\* larger current it is 4000, which is below the current.
C1_TripSmallestUpTo4000 ==
    out.op = "get_at_af" =>
        IF out.ib <= 400000 THEN SmallestAtLeast(out.at, Trips, out.ib)
        ELSE out.at = 4000 /\ out.at * 100 < out.ib

C1_Witness == out.op = "get_at_af" /\ out.ib = 16997 /\ out.at = 200

\* C2: the frame rating returned by get_at_af is the first value of the frame
\* series that is >= the returned trip rating, so frame >= trip in every result.
C2_FrameFirstAtLeastTrip ==
    out.op = "get_at_af" =>
        /\ out.af >= out.at
        /\ \E i \in 1..Len(standard_frames) :
              /\ standard_frames[i] = out.af
              /\ \A j \in 1..(i - 1) : standard_frames[j] < out.at

C2_Witness == out.op = "get_at_af" /\ out.ib = 6300 /\ out.at = 63 /\ out.af = 63

\* C3: the breaker class follows from the frame rating alone: frame >= 800 is
\* "ACB", 63 < frame < 800 is "MCCB", frame <= 63 is "MCB"; of the catalog's
\* frames 63 is an MCB, 100..630 are MCCBs, 800 and above are ACBs.
C3_ClassByFrame ==
    /\ out.op = "tab2" /\ out.tag = "shown" =>
          /\ out.af >= 800 => out.b_type = "ACB"
          /\ (out.af > 63 /\ out.af < 800) => out.b_type = "MCCB"
          /\ out.af <= 63 => out.b_type = "MCB"
    /\ \A f \in Frames :
          BreakerType(f) = IF f = 63 THEN "MCB" ELSE IF f \in 100..630 THEN "MCCB" ELSE "ACB"

C3_Witness == out.op = "tab2" /\ out.tag = "shown" /\ out.af = 63 /\ out.b_type = "MCB"

\* C4: breaker selection is monotonic: of two get_at_af calls, the one with the
\* smaller design current returns a trip rating and a frame rating that are not
\* larger, also for currents above the largest rating.
C4_BreakerMonotonic ==
    (prev.op = "get_at_af" /\ out.op = "get_at_af" /\ prev.ib <= out.ib) =>
        prev.at <= out.at /\ prev.af <= out.af

C4_Witness ==
    /\ prev.op = "get_at_af" /\ out.op = "get_at_af"
    /\ prev.ib = 400001 /\ out.ib = 500000
    /\ prev.at = 4000 /\ out.at = 4000

(***************************************************************************)
(* Cable selection                                                         *)
(***************************************************************************)
\* the select_cable_with_vd calls whose outcome is held: a direct call, or the
\* call of the switchboard form
CableCalls ==
    IF out.op = "select_cable_with_vd"
    THEN {[ib |-> out.ib, length |-> out.length, pf |-> out.pf,
           max_vd_percent |-> out.max_vd_percent, ret |-> out.ret]}
    ELSE IF out.op = "tab2" /\ out.tag # "raise"
    THEN {[ib |-> out.ib, length |-> out.cable_length, pf |-> out.pf,
           max_vd_percent |-> out.max_vd, ret |-> out.cable]}
    ELSE {}

\* ampacity (A) >= 1.25 x design current (1/100 A)
AmpacityOk(iz, ib) == iz * 10000 >= 125 * ib

\* the catalog sizes passing the ampacity filter
PassAmpacity(c) == {s \in DOMAIN cable_db : AmpacityOk(cable_db[s], c.ib)}

DropOf(s, c) == calculate_voltage_drop(s, c.ib, c.length, c.pf)

\* drop percent (1/100000 %) <= max drop (1/10 %)
DropOk(pct, max_vd_percent) == pct <= max_vd_percent * 10000

\* the catalog sizes passing the ampacity filter and the voltage-drop filter
PassBoth(c) ==
    {s \in PassAmpacity(c) :
        DropOf(s, c).tag = "value" /\ DropOk(DropOf(s, c).v_drop_percent, c.max_vd_percent)}

\* the returned cable carries neither a warning nor an error
Plain(c) == c.ret.tag = "result"

\* C5: every cable result with neither a warning nor an error has
\* ampacity >= 1.25 x design current and drop percent <= max_vd_percent.
C5_PlainResultMeetsBoth ==
    \A c \in CableCalls :
        Plain(c) =>
            /\ AmpacityOk(c.ret.iz, c.ib)
            /\ DropOk(c.ret.vd_percent, c.max_vd_percent)

\* scenario B: 169.97 A, 50 m, PF 0.85, 4 % gives 70 mm2 (255 A) below 4 %
C5_Witness ==
    /\ out.op = "select_cable_with_vd"
    /\ out.ib = 16997 /\ out.length = 50 /\ out.pf = 85 /\ out.max_vd_percent = 40
    /\ out.ret.tag = "result" /\ out.ret.size = 700 /\ out.ret.iz = 255
    /\ out.ret.vd_percent > 0 /\ out.ret.vd_percent < 400000

\* C6 as stated: whenever some catalog cable passes both filters, the smallest
\* such size is returned, without a warning.
C6_SmallestPassingBoth ==
    \A c \in CableCalls :
        PassBoth(c) # {} =>
            /\ Plain(c)
            /\ c.ret.size \in PassBoth(c)
            /\ \A s \in PassBoth(c) : c.ret.size <= s

\* where the voltage drop is defined (pf <= 1: sin(phi) is real)
DropDefined(c) == \A s \in PassAmpacity(c) : DropOf(s, c).tag = "value"

\* C7: if no catalog cable passes both filters but some pass the ampacity
\* filter, the largest size passing the ampacity filter is returned, with its
\* computed voltage drop, tagged with the warning.
C7_FallbackLargestWithWarning ==
    \A c \in CableCalls :
        (DropDefined(c) /\ PassBoth(c) = {} /\ PassAmpacity(c) # {}) =>
            /\ c.ret.tag = "warning"
            /\ c.ret.size \in PassAmpacity(c)
            /\ \A s \in PassAmpacity(c) : s <= c.ret.size
            /\ c.ret.iz = cable_db[c.ret.size]
            /\ c.ret.vd = DropOf(c.ret.size, c).v_drop
            /\ c.ret.vd_percent = DropOf(c.ret.size, c).v_drop_percent

\* 169.97 A over 1000 m: 300 mm2 and up carry the current, none within 4 %
C7_Witness ==
    /\ out.op = "select_cable_with_vd"
    /\ out.ib = 16997 /\ out.length = 1000 /\ out.pf = 85 /\ out.max_vd_percent = 40
    /\ PassBoth(out) = {}
    /\ out.ret.tag = "warning" /\ out.ret.size = 6300 /\ out.ret.vd_percent > 400000

\* C8: the error outcome is returned exactly when no catalog cable has
\* ampacity >= 1.25 x design current, that is when 1.25 x design current > 980,
\* whatever the run length, the power factor and max_vd_percent.
C8_ErrorIffNoAmpacity ==
    \A c \in CableCalls :
        /\ c.ret.tag = "error" <=> PassAmpacity(c) = {}
        /\ PassAmpacity(c) = {} <=> 125 * c.ib > 980 * 10000

\* scenario D: 5000 A
C8_Witness ==
    /\ out.op = "select_cable_with_vd"
    /\ out.ib = 500000 /\ out.pf = 110 /\ out.length = 0
    /\ out.ret.tag = "error"

(***************************************************************************)
(* Outcomes of invalid parameters                                          *)
(***************************************************************************)
\* C9 as stated: the design current computation ends in InvalidParameter
\* exactly when the power factor is not in (0, 1], or the voltage is <= 0, or
\* the power is negative.
C9_InvalidParameter ==
    out.op = "tab2" =>
        (out.tag = "InvalidParameter"
            <=> (out.pf <= 0 \/ out.pf > 100 \/ RefVoltage <= 0 \/ out.load_kw < 0))

\* C10 as stated: no call ends in an uncontrolled fault (an exception).
C10_NoFault ==
    /\ out.op \in {"calculate_voltage_drop", "select_cable_with_vd"} => out.ret.tag # "raise"
    /\ out.op = "tab2" => out.tag # "raise"

(***************************************************************************)
(* Repeated calls and the reference tables                                 *)
(***************************************************************************)
\* an earlier outcome of operation op is kept and a call of op has returned
Again(op) == kept.op = "kept" /\ kept.call.op = op /\ out.op = op

\* C11: two get_at_af calls, or two select_cable_with_vd calls, with the same
\* arguments return the same outcome, whatever was called before or between.
C11_SelectorsDeterministic ==
    /\ (Again("get_at_af") /\ kept.call.ib = out.ib) =>
          kept.call.at = out.at /\ kept.call.af = out.af
    /\ (prev.op = "get_at_af" /\ out.op = "get_at_af" /\ prev.ib = out.ib) =>
          prev.at = out.at /\ prev.af = out.af
    /\ (/\ Again("select_cable_with_vd")
        /\ kept.call.ib = out.ib /\ kept.call.length = out.length
        /\ kept.call.pf = out.pf /\ kept.call.max_vd_percent = out.max_vd_percent) =>
          kept.call.ret = out.ret

C11_Witness ==
    /\ Again("get_at_af")
    /\ kept.since = MaxBetween
    /\ kept.call.ib = 16997 /\ out.ib = 16997 /\ out.at = 200

\* the reference tables as __init__ sets them
Constructed ==
    <<StandardFrames, StandardTrips, CableDb, CableDiameters, CableImpedance,
      TrayFillFactors, StandardTraySizes>>

C13_ThreePhaseDesignCurrent ==
    (out.op = "tab2" /\ out.tag = "shown") =>
        /\ LET watts == MulDiv(out.ib, (17321 * 400 * out.pf) \div 10000, 10000)
           IN  watts - out.load_kw * 1000 \in -8..8
        /\ out.ib <= 400000 => SmallestAtLeast(out.at, Trips, out.ib)
        /\ (out.load_kw = 100 /\ out.pf = 85) =>
              /\ out.ib > 16000 /\ out.ib <= 20000
              /\ out.at = 200 /\ out.af = 250 /\ out.b_type = "MCCB"

C13_Witness ==
    /\ out.op = "tab2" /\ out.tag = "shown"
    /\ out.load_kw = 100 /\ out.pf = 85
    /\ out.at = 200 /\ out.af = 250 /\ out.b_type = "MCCB"

\* C14 as stated: the drop percentage is the drop in volts divided by the
\* system voltage of the caller, times 100, not by a fixed 400 V.
C14_PercentOfSystemVoltage ==
    (out.op = "calculate_voltage_drop" /\ out.ret.tag = "value") =>
        out.ret.v_drop_percent = MulDiv(out.ret.v_drop, 100, out.system_voltage)

\* C18: for a design current above every trip rating (I > 4000 A) get_at_af
\* does not fail: it returns trip 4000 and frame 4000, and the form shows them
\* as an ordinary result.
C18_ClampedAbove4000 ==
    /\ (out.op = "get_at_af" /\ out.ib > 400000) => out.at = 4000 /\ out.af = 4000
    /\ (out.op = "tab2" /\ out.ib > 400000) =>
          out.tag = "shown" /\ out.at = 4000 /\ out.af = 4000

C18_Witness == out.op = "get_at_af" /\ out.ib = 500000 /\ out.at = 4000 /\ out.af = 4000

\* C20: every returned size is a catalog value: a cable result's size is a key
\* of the cable table and its ampacity that key's ampacity; a trip rating is
\* a member of the trip series and a frame rating of the frame series.
C20_CatalogValuesOnly ==
    /\ \A c \in CableCalls :
          c.ret.tag \in {"result", "warning"} =>
              c.ret.size \in DOMAIN cable_db /\ c.ret.iz = cable_db[c.ret.size]
    /\ (out.op = "get_at_af" \/ (out.op = "tab2" /\ out.tag = "shown")) =>
          out.at \in Trips /\ out.af \in Frames

C20_Witness ==
    /\ out.op = "tab2" /\ out.tag = "shown"
    /\ out.at = 200 /\ out.af = 250
    /\ out.cable.tag = "result" /\ out.cable.iz = cable_db[out.cable.size]

(***************************************************************************)
(* Containment sizing                                                      *)
(***************************************************************************)
TrayWidths == Range(standard_tray_sizes)

TrayResult == out.op = "sizeContainment" /\ out.ret.tag = "result"

\* the request of scenario C: five 50 mm2 cables, perforated tray, depth 50 mm,
\* spare 25 %
ScenarioC ==
    /\ out.op = "sizeContainment"
    /\ out.cables = <<[size |-> 500, quantity |-> 5]>>
    /\ out.kind = "perforated" /\ out.depthMm = 50 /\ out.sparePercent = 25

\* C15: for a tray, requiredWidth = totalAreaWithSpare / (depthMm * fillFactor)
\* and the selected width is the first (smallest) standard width >=
\* requiredWidth; scenario C (fill factor 0.4, cable diameter 27 mm) selects
\* 200 mm from a required width of about 179 mm.
C15_TrayFirstWidthAtLeastRequired ==
    /\ TrayResult =>
          /\ MulDiv(out.ret.requiredWidth, out.depthMm * tray_fill_factors[out.kind], 100)
                 - out.ret.totalAreaWithSpare \in -100..0
          /\ SmallestAtLeast(out.ret.selectedDimension, TrayWidths, out.ret.requiredWidth)
    /\ ScenarioC =>
          /\ out.ret.tag = "result"
          /\ cable_diameters[500] = 27
          /\ out.ret.totalArea \in 286200..286400
          /\ out.ret.totalAreaWithSpare \in 357800..358000
          /\ out.ret.requiredWidth \in 17800..18000
          /\ out.ret.selectedDimension = 200

C15_Witness == ScenarioC /\ out.ret.tag = "result" /\ out.ret.selectedDimension = 200

Alone(t) ==
    IF threads[t].op = "get_at_af" THEN get_at_af(threads[t].ib)
    ELSE LET a == threads[t].args
         IN  select_cable_with_vd(a.ib, a.length, a.pf, a.max_vd_percent)

\* C19: breaker and cable selections that run interleaved on one shared
\* catalog, without locks, each return the outcome they return when run
\* alone, and in no interleaving does the catalog differ from its constructed
\* value.
C19_InterleavedAsAlone ==
    /\ catalog = Constructed
    /\ \A t \in Threads : threads[t].pc = "done" => threads[t].ret = Alone(t)

\* a cable selection and a breaker selection both under way, neither finished
C19_Witness ==
    \E t \in Threads, u \in Threads :
        /\ threads[t].pc = "scan" /\ threads[t].suitable_cables # {}
        /\ threads[u].pc = "frames" /\ threads[u].at = 200

(***************************************************************************)
(* The tables                                                              *)
(***************************************************************************)
StrictlyAscending(series) ==
    \A i \in DOMAIN series, j \in DOMAIN series : i < j => series[i] < series[j]

\* C21: the trip ratings, the frame ratings and the tray widths are strictly
\* ascending, so the left-to-right scan for the first rating >= the target
\* returns the smallest such rating; the largest trip rating does not exceed
\* the largest frame rating.
C21_SeriesStrictlyAscending ==
    /\ StrictlyAscending(standard_trips)
    /\ StrictlyAscending(standard_frames)
    /\ StrictlyAscending(standard_tray_sizes)
    /\ \A t \in Trips : \E f \in Frames : t <= f
    /\ out.op = "get_at_af" =>
          /\ (\E t \in Trips : t * 100 >= out.ib) => SmallestAtLeast(out.at, Trips, out.ib)
          /\ SmallestAtLeast(out.af, Frames, out.at * 100)

\* the largest trip rating finds a frame
C21_Witness == out.op = "get_at_af" /\ out.ib = 400000 /\ out.at = 4000 /\ out.af = 4000

\* C22: in the cable table the ampacity is strictly increasing with the size,
\* so the sizes passing the ampacity filter are upward-closed and, when there
\* are any, include the largest size, 630 mm2.
C22_AmpacityIncreasingWithSize ==
    /\ \A s \in DOMAIN cable_db, t \in DOMAIN cable_db : s < t => cable_db[s] < cable_db[t]
    /\ \A c \in CableCalls :
          /\ \A s \in PassAmpacity(c), t \in DOMAIN cable_db : s < t => t \in PassAmpacity(c)
          /\ PassAmpacity(c) # {} => 6300 \in PassAmpacity(c)
          /\ c.ret.tag = "warning" => c.ret.size = 6300

\* 688 A: 1.25 x 688 = 860, only 500 and 630 mm2 carry it
C22_Witness ==
    /\ out.op = "select_cable_with_vd" /\ out.ib = 68800
    /\ PassAmpacity(out) = {5000, 6300}

\* C27: the ampacity, diameter and impedance tables have the same size keys,
\* so inside select_cable_with_vd the drop of a size taken from the ampacity
\* table is never (None, None) and the fallback never formats a missing drop
\* (for pf <= 1 no selection raises).
C27_SameSizeKeys ==
    /\ DOMAIN cable_db = DOMAIN cable_diameters
    /\ DOMAIN cable_db = DOMAIN cable_impedance
    /\ \A c \in CableCalls :
          /\ \A s \in PassAmpacity(c) : DropOf(s, c).tag # "None"
          /\ c.pf <= 100 => c.ret.tag # "raise"
          /\ c.ret.tag = "warning" => c.ret.size \in DOMAIN cable_impedance

\* the fallback on 630 mm2 with its drop
C27_Witness ==
    /\ out.op = "select_cable_with_vd" /\ out.pf = 85 /\ out.length = 1000
    /\ out.ret.tag = "warning" /\ out.ret.size = 6300
    /\ out.ret.vd = DropOf(6300, out).v_drop

\* C23 as stated: a result carrying the warning has a drop percent strictly
\* above max_vd_percent, whatever the input, a design current or a run length
\* of 0 included.
C23_WarningMeansDropAboveLimit ==
    \A c \in CableCalls :
        c.ret.tag = "warning" => c.ret.vd_percent > c.max_vd_percent * 10000

(***************************************************************************)
(* Breaker and cable of one design current                                 *)
(***************************************************************************)
\* C24 as stated: the breaker and the cable selected for the same design
\* current are coordinated: whenever get_at_af returns a trip rating and
\* select_cable_with_vd a cable, with or without the warning, the cable's
\* ampacity iz is >= the trip rating.
C24_CableCarriesTripRating ==
    (out.op = "tab2" /\ out.tag = "shown" /\ out.cable.tag \in {"result", "warning"}) =>
        out.cable.iz >= out.at

(***************************************************************************)
(* The fallback and the load                                               *)
(***************************************************************************)
\* C25: for a positive design current, a positive run length and a power
\* factor in (0, 1], the warning means that no catalog cable meets both
\* constraints, and the fallback cable has the lowest voltage drop of all the
\* cables passing the ampacity filter, the resistance and the reactance being
\* non-increasing with the size.
C25_WarningMeansNoneMeetsBoth ==
    /\ \A s \in DOMAIN cable_impedance, t \in DOMAIN cable_impedance :
          s < t => /\ cable_impedance[s].r >= cable_impedance[t].r
                   /\ cable_impedance[s].x >= cable_impedance[t].x
    /\ \A c \in CableCalls :
          (c.ib > 0 /\ c.length > 0 /\ c.pf > 0 /\ c.pf <= 100 /\ c.ret.tag = "warning") =>
              /\ PassBoth(c) = {}
              /\ \A s \in PassAmpacity(c) :
                    /\ c.ret.vd <= DropOf(s, c).v_drop
                    /\ c.ret.vd_percent <= DropOf(s, c).v_drop_percent

\* 169.97 A over 1000 m at 1 %: 70 mm2 and up carry the current, 630 mm2 drops
\* the least and still too much
C25_Witness ==
    /\ out.op = "select_cable_with_vd"
    /\ out.ib = 16997 /\ out.length = 1000 /\ out.pf = 100 /\ out.max_vd_percent = 10
    /\ out.ret.tag = "warning" /\ out.ret.size = 6300
    /\ Cardinality(PassAmpacity(out)) > 1
    /\ out.ret.vd < DropOf(700, out).v_drop

\* the call returned a cable, with or without the warning
ReturnsCable(call) == call.ret.tag \in {"result", "warning"}

\* call a asks no more than call b: same power factor and limit, positive
\* currents and lengths, neither the current nor the length larger
NoMoreLoad(a, b) ==
    /\ a.pf = b.pf /\ a.max_vd_percent = b.max_vd_percent
    /\ a.ib > 0 /\ a.length > 0
    /\ a.ib <= b.ib /\ a.length <= b.length

\* C26: the selected cable size is monotonic in the load: of two
\* select_cable_with_vd calls that both return a cable, with the same power
\* factor and limit and positive currents and lengths, the one with neither a
\* larger current nor a larger length returns a size that is not larger.
C26_SizeMonotonicInLoad ==
    (Again("select_cable_with_vd") /\ ReturnsCable(kept.call) /\ ReturnsCable(out)) =>
        /\ NoMoreLoad(kept.call, out) => kept.call.ret.size <= out.ret.size
        /\ NoMoreLoad(out, kept.call) => out.ret.size <= kept.call.ret.size

\* 63 A over 1000 m takes 240 mm2, 169.97 A over 1000 m the fallback 630 mm2
C26_Witness ==
    /\ Again("select_cable_with_vd")
    /\ NoMoreLoad(kept.call, out)
    /\ kept.call.ib = 6300 /\ kept.call.length = 1000 /\ kept.call.ret.size = 2400
    /\ out.ib = 16997 /\ out.length = 1000 /\ out.ret.tag = "warning" /\ out.ret.size = 6300

(***************************************************************************)
(* Generator sizing                                                        *)
(***************************************************************************)
GenSizes == {s * 8 : s \in Range(StandardGenSizes)}

\* C28 as stated: the starting-scenario kVA always equals the total running
\* kVA, so the required size is 1.2 x the total running kVA for every value of
\* largest_motor_starting_kva, and the recommended size is the first standard
\* size >= the required one, or the required value itself above 2000 kVA.
C28_StartingEqualsRunning ==
    out.op = "calculate_generator_size" =>
        LET required == FloatOf(out.ret.total_running_kva * 6, 5)
        IN  /\ out.ret.starting_scenario_kva = out.ret.total_running_kva
            /\ out.ret.required_gen_size = required
            /\ out.ret.recommended_gen =
                  IF \E s \in GenSizes : s >= required
                  THEN CHOOSE s \in GenSizes :
                           s >= required /\ \A t \in GenSizes : t >= required => s <= t
                  ELSE required

(***************************************************************************)
(* Energy cost                                                             *)
(***************************************************************************)
\* the tariff of the tariff table: peak 9am-12pm and 6pm-8pm, off-peak
\* 10pm-7am, normal the other hours
Tariff(hour) ==
    IF hour \in 9..12 \cup 18..20 THEN 30
    ELSE IF hour \in 22..23 \cup 0..7 THEN 15
    ELSE 22

RECURSIVE ClaimedCost(_)
\* the cost of the rows, each at the tariff of its hour
ClaimedCost(rows) ==
    IF rows = <<>> THEN 0
    ELSE Head(rows).energy_kwh * Tariff(Head(rows).hour) + ClaimedCost(Tail(rows))

\* C30 as stated: every hour 0..23 is billed at exactly one tariff, and the
\* hours 22..23 and 0..7, off-peak in the tariff table, are billed at the
\* off-peak rate 0.15.
C30_OffPeakHoursAtOffPeakRate ==
    out.op = "energy_analytics_dashboard" =>
        out.ret.total_cost_sgd = ClaimedCost(out.energy_data)

(***************************************************************************)
(* Maintenance schedule                                                    *)
(***************************************************************************)
\* C29 as stated: for every equipment list and valid start date the schedule
\* has one entry per (equipment, template task) pair, ordered by
\* non-decreasing due date, none due before the start date.
C29_ScheduleOrderedFromStart ==
    out.op = "generate_maintenance_schedule" =>
        /\ out.ret.tag = "value"
        /\ LET schedule == out.ret.schedule
               equipment_list == out.equipment_list
           IN  /\ \A e \in DOMAIN equipment_list :
                     \A p \in DOMAIN MaintenanceTemplates :
                         \A t \in DOMAIN MaintenanceTemplates[p].tasks :
                             Cardinality({i \in DOMAIN schedule :
                                 /\ schedule[i].equipment = equipment_list[e].type
                                 /\ schedule[i].location = equipment_list[e].location
                                 /\ schedule[i].period = MaintenanceTemplates[p].period
                                 /\ schedule[i].task = MaintenanceTemplates[p].tasks[t].task})
                                 = 1
               /\ Len(schedule) = 24 * Len(equipment_list)
               /\ \A i \in DOMAIN schedule, j \in DOMAIN schedule :
                     i < j => ~Earlier(schedule[j].due_date, schedule[i].due_date)
               /\ \A i \in DOMAIN schedule :
                     ~Earlier(schedule[i].due_date, out.start_date)

====
